---- MODULE Spec2Model ----
(***************************************************************************)
(* Model of contracts/rust/sigmoid_calculator/src/lib.rs: 18-decimal       *)
(* fixed-point arithmetic over U256, the Taylor and libm exponentials, the *)
(* sigmoid, the bonding-curve price and its 100-step integral.             *)
(*                                                                         *)
(* A U256 is modelled at its full width.  TLC's integers are 32 bits, so a *)
(* magnitude is a little-endian sequence of base-256 limbs without leading *)
(* zero limbs (<<>> is 0); U256 holds the magnitudes of at most 32 limbs.  *)
(* The operators +, -, * of U256 (ruint) wrap modulo 2^256 and / panics on *)
(* a zero divisor; they are modelled so.                                   *)
(***************************************************************************)
EXTENDS Integers, Sequences, FiniteSets, TLC

----------------------------------------------------------------------------
(* Unbounded magnitudes: the mathematical value of an expression.          *)

Base == 256

Limbs == 32

Zero == <<>>

Limb(a, i) == IF 1 <= i /\ i <= Len(a) THEN a[i] ELSE 0

\* a without its leading zero limbs, as a tuple
Norm(a) ==
  IF a = <<>> THEN a
  ELSE IF a[Len(a)] # 0 THEN a
  ELSE LET top == {i \in 1..Len(a) :
                     a[i] # 0 /\ \A j \in i + 1..Len(a) : a[j] = 0}
       IN  IF top = {} THEN <<>> ELSE SubSeq(a, 1, CHOOSE i \in top : TRUE)

RECURSIVE FromNat(_)
FromNat(n) == IF n = 0 THEN <<>> ELSE <<n % Base>> \o FromNat(n \div Base)

Cmp(a, b) ==
  IF Len(a) < Len(b) THEN -1
  ELSE IF Len(a) > Len(b) THEN 1
  ELSE IF \E i \in 1..Len(a) :
            a[i] < b[i] /\ \A j \in i + 1..Len(a) : a[j] = b[j]
  THEN -1
  ELSE IF a = b THEN 0
  ELSE 1

Lt(a, b) == Cmp(a, b) < 0

Le(a, b) == Cmp(a, b) <= 0

\* the carry into limb k of the limb sums u, each at most 2 * (Base - 1):
\* 1 when a limb below overflows and the limbs between are all Base - 1
Carry(u, k) ==
  IF \E i \in 1..k - 1 :
       u[i] >= Base /\ \A j \in i + 1..k - 1 : u[j] = Base - 1
  THEN 1
  ELSE 0

\* the magnitude of the limb sums u
Resolve(u) ==
  Norm(SubSeq([k \in 1..Len(u) + 1 |-> (Limb(u, k) + Carry(u, k)) % Base],
              1, Len(u) + 1))

Longer(a, b) == IF Len(a) > Len(b) THEN Len(a) ELSE Len(b)

Add(a, b) ==
  IF a = <<>> THEN b
  ELSE IF b = <<>> THEN a
  ELSE Resolve(SubSeq([k \in 1..Longer(a, b) |-> Limb(a, k) + Limb(b, k)],
                      1, Longer(a, b)))

\* the borrow from limb k in a - b: 1 when a limb below is smaller in a and
\* the limbs between are equal
Borrow(a, b, k) ==
  IF \E i \in 1..k - 1 :
       a[i] < Limb(b, i) /\ \A j \in i + 1..k - 1 : a[j] = Limb(b, j)
  THEN 1
  ELSE 0

\* a - b for a >= b
Sub(a, b) ==
  IF b = <<>> THEN a
  ELSE IF a = b THEN <<>>
  ELSE Norm(SubSeq([k \in 1..Len(a) |->
                      (a[k] - Limb(b, k) - Borrow(a, b, k) + Base) % Base],
                   1, Len(a)))

\* the sum of a[i] * b[k + 1 - i] for i in lo..hi, by halves
RECURSIVE ColSum(_, _, _, _, _)
ColSum(a, b, k, lo, hi) ==
  IF lo > hi THEN 0
  ELSE IF lo = hi THEN a[lo] * b[k + 1 - lo]
  ELSE ColSum(a, b, k, lo, (lo + hi) \div 2)
       + ColSum(a, b, k, ((lo + hi) \div 2) + 1, hi)

\* the sum of the limb products a[i] * b[j] of weight Base^(k-1), below 2^24
Col(a, b, k) ==
  ColSum(a, b, k, IF k > Len(b) THEN k + 1 - Len(b) ELSE 1,
         IF k > Len(a) THEN Len(a) ELSE k)

Cols(a, b, n) == SubSeq([k \in 1..n |-> Col(a, b, k)], 1, n)

\* the numbers c, each below Base^3, spread over the limbs they reach
Spread(c) ==
  SubSeq([k \in 1..Len(c) |->
            (c[k] % Base)
            + ((Limb(c, k - 1) \div Base) % Base)
            + (Limb(c, k - 2) \div (Base * Base))], 1, Len(c))

\* the columns are spread (each limb then below 3 * Base) and once more
\* (each at most Base + 1), then resolved
Mul(a, b) ==
  IF a = <<>> \/ b = <<>> THEN <<>>
  ELSE Resolve(Spread(Spread(Cols(a, b, Len(a) + Len(b)))))

\* a * m for a machine number m
MulNat(a, m) == Mul(a, FromNat(m))

\* the largest quotient limb at most q that fits
RECURSIVE QFix(_, _, _)
QFix(r, d, q) ==
  IF q = 0 THEN 0
  ELSE IF Cmp(MulNat(d, q), r) > 0 THEN QFix(r, d, q - 1)
  ELSE q

\* the quotient limb r \div d, for r < d * Base: estimated from the three
\* highest limbs of r over the two highest of d, then corrected downwards
QDigit(r, d) ==
  IF Cmp(r, d) < 0 THEN 0
  ELSE LET n == Len(d)
           top == IF n = 1 THEN Limb(r, 2) * Base + r[1]
                  ELSE (Limb(r, n + 1) * Base + r[n]) * Base + r[n - 1]
           div == IF n = 1 THEN d[1] ELSE d[n] * Base + d[n - 1]
           est == top \div div
       IN  QFix(r, d, IF est > Base - 1 THEN Base - 1 ELSE est)

\* one step of long division: the quotient limbs q found so far and the
\* remainder r, after the next limb of the dividend is brought down
DivDigit(d, q, r, qd) == [q |-> <<qd>> \o q, r |-> Sub(r, MulNat(d, qd))]

DivStep(d, limb, s) ==
  DivDigit(d, s.q, Norm(<<limb>> \o s.r), QDigit(Norm(<<limb>> \o s.r), d))

\* m more steps from the state s, unless every limb of a is brought down;
\* the steps are taken by halves
RECURSIVE DivRun(_, _, _, _)
DivRun(a, d, m, s) ==
  IF Len(s.q) = Len(a) \/ m = 0 THEN s
  ELSE IF m = 1 THEN DivStep(d, a[Len(a) - Len(s.q)], s)
  ELSE DivRun(a, d, m - (m \div 2), DivRun(a, d, m \div 2, s))

\* long division of a by d # 0, from the highest limb of a down
DivMod(a, d) == DivRun(a, d, Len(a), [q |-> <<>>, r |-> <<>>])

\* floor(a / d) and a mod d, for d # 0
Quot(a, d) == Norm(DivMod(a, d).q)

Rem(a, d) == DivMod(a, d).r

\* 2^e
TwoPow(e) ==
  SubSeq([i \in 1..(e \div 8) + 1 |->
            IF i = (e \div 8) + 1 THEN 2 ^ (e % 8) ELSE 0], 1, (e \div 8) + 1)

\* 10^e
RECURSIVE TenPow(_)
TenPow(e) ==
  IF e = 0 THEN <<1>>
  ELSE IF e % 2 = 1 THEN MulNat(TenPow(e - 1), 10)
  ELSE Mul(TenPow(e \div 2), TenPow(e \div 2))

----------------------------------------------------------------------------
(* U256: the operators wrap modulo 2^256; a panic unwinds the call and is  *)
(* the value DivisionByZero, which no magnitude equals.                    *)

Fits(a) == Len(a) <= Limbs

Wrap(a) == IF Fits(a) THEN a ELSE Norm(SubSeq(a, 1, Limbs))

U256Max == SubSeq([i \in 1..Limbs |-> Base - 1], 1, Limbs)

TwoPow256 == TwoPow(8 * Limbs)

DivisionByZero == <<-1>>

\* a call that ended in a panic; the code has no other failure
Panicked(r) == r = DivisionByZero

U256Add(a, b) == Wrap(Add(a, b))

U256Sub(a, b) == IF Le(b, a) THEN Sub(a, b) ELSE Sub(TwoPow256, Sub(b, a))

U256Mul(a, b) == Wrap(Mul(a, b))

U256Div(a, d) == IF d = Zero THEN DivisionByZero ELSE Quot(a, d)

U256Rem(a, d) == IF d = Zero THEN DivisionByZero ELSE Rem(a, d)

----------------------------------------------------------------------------
(* mod fixed_point                                                         *)

DECIMALS == 18

SCALE == TenPow(DECIMALS)

SCALE_U256 == SCALE

from_decimal(value) == U256Mul(FromNat(value), SCALE_U256)

mul_fixed_unscaled(a, b) == U256Mul(a, b)

mul_fixed(a, b) ==
  LET product == U256Mul(a, b)
  IN  U256Div(product, SCALE_U256)

div_fixed_wrong_operand(a, b) ==
  IF a = Zero THEN DivisionByZero
  ELSE LET scaled_a == U256Mul(a, SCALE_U256)
       IN  U256Div(scaled_a, b)

div_fixed(a, b) ==
  IF b = Zero THEN DivisionByZero
  ELSE LET scaled_a == U256Mul(a, SCALE_U256)
       IN  U256Div(scaled_a, b)

----------------------------------------------------------------------------
(* The contract serves one call at a time.  op is the entry point being    *)
(* served ("idle" between calls), args its decoded arguments, ret what it  *)
(* returned and aux the locals of the call that the properties read.       *)
(* libm is the linked libm::exp, see libm_exp below.                       *)
VARIABLES op, args, ret, aux, libm

vars == <<op, args, ret, aux, libm>>

----------------------------------------------------------------------------
(* mod sigmoid_math                                                        *)

MAX_ITERATIONS == 8

\* a decimal literal, written as its base-10^6 digits, highest first
RECURSIVE FromChunksTo(_, _)
FromChunksTo(c, i) ==
  IF i = 0 THEN Zero
  ELSE Add(MulNat(FromChunksTo(c, i - 1), 1000000), FromNat(c[i]))

FromChunks(c) == FromChunksTo(c, Len(c))

\* floor(e^-n * 10^18) for n = 0..42, at index n + 1
ExpNeg ==
  <<
   <<1, 0, 0, 0>>,
   <<367879, 441171, 442321>>,
   <<135335, 283236, 612691>>,
   <<49787, 68367, 863942>>,
   <<18315, 638888, 734180>>,
   <<6737, 946999, 85467>>,
   <<2478, 752176, 666358>>,
   <<911, 881965, 554516>>,
   <<335, 462627, 902511>>,
   <<123, 409804, 86679>>,
   <<45, 399929, 762484>>,
   <<16, 701700, 790245>>,
   <<6, 144212, 353328>>,
   <<2, 260329, 406981>>,
   <<831528, 719103>>,
   <<305902, 320501>>,
   <<112535, 174719>>,
   <<41399, 377187>>,
   <<15229, 979744>>,
   <<5602, 796437>>,
   <<2061, 153622>>,
   <<758, 256042>>,
   <<278, 946809>>,
   <<102, 618796>>,
   <<37, 751345>>,
   <<13, 887943>>,
   <<5, 109089>>,
   <<1, 879528>>,
   <<691440>>,
   <<254366>>,
   <<93576>>,
   <<34424>>,
   <<12664>>,
   <<4658>>,
   <<1713>>,
   <<630>>,
   <<231>>,
   <<85>>,
   <<31>>,
   <<11>>,
   <<4>>,
   <<1>>,
   <<>>
  >>

\* floor(e^n * 10^18) for n = 0..70, at index n + 1
ExpPos ==
  <<
   <<1, 0, 0, 0>>,
   <<2, 718281, 828459, 45235>>,
   <<7, 389056, 98930, 650227>>,
   <<20, 85536, 923187, 667740>>,
   <<54, 598150, 33144, 239078>>,
   <<148, 413159, 102576, 603421>>,
   <<403, 428793, 492735, 122608>>,
   <<1096, 633158, 428458, 599263>>,
   <<2980, 957987, 41728, 274743>>,
   <<8103, 83927, 575384, 7709>>,
   <<22026, 465794, 806716, 516957>>,
   <<59874, 141715, 197818, 455326>>,
   <<162754, 791419, 3920, 808005>>,
   <<442413, 392008, 920503, 326102>>,
   <<1, 202604, 284164, 776777, 749236>>,
   <<3, 269017, 372472, 110639, 301855>>,
   <<8, 886110, 520507, 872636, 763023>>,
   <<24, 154952, 753575, 298214, 775435>>,
   <<65, 659969, 137330, 511138, 786503>>,
   <<178, 482300, 963187, 260844, 910033>>,
   <<485, 165195, 409790, 277969, 106830>>,
   <<1318, 815734, 483214, 697209, 998883>>,
   <<3584, 912846, 131591, 561681, 159945>>,
   <<9744, 803446, 248902, 600034, 632684>>,
   <<26489, 122129, 843472, 294139, 162152>>,
   <<72004, 899337, 385872, 524161, 351466>>,
   <<195729, 609428, 838764, 269776, 397876>>,
   <<532048, 240601, 798616, 683747, 304341>>,
   <<1, 446257, 64291, 475173, 677047, 422996>>,
   <<3, 931334, 297144, 42074, 388620, 580843>>,
   <<10, 686474, 581524, 462146, 990468, 650741>>,
   <<29, 48849, 665247, 425231, 85682, 111679>>,
   <<78, 962960, 182680, 695160, 978022, 635108>>,
   <<214, 643579, 785916, 64624, 297761, 531260>>,
   <<583, 461742, 527454, 881402, 902734, 610391>>,
   <<1586, 13452, 313430, 728129, 644625, 774660>>,
   <<4311, 231547, 115195, 227113, 422292, 856925>>,
   <<11719, 142372, 802611, 308772, 939791, 190194>>,
   <<31855, 931757, 113756, 220328, 671701, 298645>>,
   <<86593, 400423, 993746, 953606, 932719, 264934>>,
   <<235385, 266837, 19985, 407899, 910749, 34804>>,
   <<639843, 493530, 54949, 222663, 403515, 570818>>,
   <<1, 739274, 941520, 501047, 394681, 303611, 235226>>,
   <<4, 727839, 468229, 346561, 474457, 562744, 280370>>,
   <<12, 851600, 114359, 308275, 809299, 632143, 99257>>,
   <<34, 934271, 57485, 95348, 34797, 233406, 99533>>,
   <<94, 961194, 206024, 488745, 133649, 117118, 323101>>,
   <<258, 131288, 619006, 739623, 285800, 215273, 380431>>,
   <<701, 673591, 209763, 173865, 471599, 886117, 405455>>,
   <<1907, 346572, 495099, 690525, 99840, 953848, 447388>>,
   <<5184, 705528, 587072, 464087, 453322, 933485, 384827>>,
   <<14093, 490824, 269387, 964492, 143312, 370168, 788684>>,
   <<38310, 80007, 165768, 493035, 695487, 861993, 898705>>,
   <<104137, 594330, 290877, 971834, 729334, 937964, 398046>>,
   <<283075, 330327, 469390, 44206, 354801, 407454, 85032>>,
   <<769478, 526514, 201713, 818274, 559012, 939399, 207076>>,
   <<2, 91659, 496012, 996153, 907071, 157214, 673778, 152966>>,
   <<5, 685719, 999335, 932222, 640348, 820633, 253303, 372158>>,
   <<15, 455389, 355901, 39303, 530766, 911174, 620068, 363717>>,
   <<42, 12104, 37905, 142549, 565934, 307191, 617684, 111119>>,
   <<114, 200738, 981568, 428366, 295718, 314476, 563019, 804595>>,
   <<310, 429793, 570191, 990870, 734214, 110710, 37206, 295017>>,
   <<843, 835666, 874145, 448907, 332948, 37311, 796008, 69267>>,
   <<2293, 783159, 469609, 879099, 352840, 268613, 600463, 279340>>,
   <<6235, 149080, 811616, 882909, 238708, 928469, 744831, 391846>>,
   <<16948, 892444, 103337, 141417, 836114, 371974, 948926, 236225>>,
   <<46071, 866343, 312915, 426773, 184428, 60086, 893349, 3037>>,
   <<125236, 317084, 221378, 51352, 196074, 436576, 753488, 527404>>,
   <<340427, 604993, 174052, 137690, 718700, 435059, 537387, 613994>>,
   <<925378, 172558, 778760, 24239, 791668, 734587, 347659, 920720>>,
   <<2, 515438, 670919, 167006, 265781, 174252, 112961, 407412, 973383>>
  >>

\* the tables as magnitudes
ExpNegFixed == SubSeq([n \in 1..43 |-> FromChunks(ExpNeg[n])], 1, 43)

ExpPosFixed == SubSeq([n \in 1..71 |-> FromChunks(ExpPos[n])], 1, 71)

\* int_part.as_limbs()[0]: the low 64 bits
LowLimb(a) == IF Len(a) <= 8 THEN a ELSE Norm(SubSeq(a, 1, 8))

\* a magnitude as a machine number, capped at cap
Capped(a, cap) ==
  IF Len(a) > 1 THEN cap
  ELSE IF Limb(a, 1) > cap THEN cap
  ELSE Limb(a, 1)

(***************************************************************************)
(* libm::exp(x_signed) for x_f64 = int + frac / 10^18, as the real number  *)
(* times 10^18, rounded down.  exp(0) is 1.0 exactly.  Elsewhere the f64   *)
(* result is not the same on every platform to the last bit; it lies       *)
(* between the values of e^x at the two integers around x_f64, and libm    *)
(* says which of the two bounds the linked exp returns ("lo": the lower,   *)
(* "hi": the upper).  Either way exp is monotonic in x_f64.  From 70 on    *)
(* e^x is above 10^30, from -42 on below 10^-18.                           *)
(***************************************************************************)
ExpNegAt(n) ==
  ExpNegFixed[IF n >= 42 THEN 43 ELSE IF libm = "hi" THEN n + 1 ELSE n + 2]

ExpPosAt(n) ==
  ExpPosFixed[IF n >= 70 THEN 71 ELSE IF libm = "hi" THEN n + 2 ELSE n + 1]

libm_exp(int, frac, is_negative) ==
  IF int = Zero /\ frac = Zero THEN SCALE
  ELSE IF is_negative THEN ExpNegAt(Capped(int, 42))
  ELSE ExpPosAt(Capped(int, 70))

\* 1e30 and u128::MAX * SCALE / 1000
Exp1e30 == Mul(Mul(TenPow(15), TenPow(15)), SCALE)

ExpSentinel ==
  U256Div(U256Mul(Sub(TwoPow(128), <<1>>), SCALE_U256), FromNat(1000))

\* the conversion of the f64 exp_result to fixed point
exp_to_fixed(exp_result) ==
  IF Lt(Exp1e30, exp_result) THEN ExpSentinel
  ELSE IF Lt(exp_result, <<1>>) THEN <<1>>
  ELSE U256Add(U256Mul(Quot(exp_result, SCALE), SCALE_U256),
               Rem(exp_result, SCALE))

exp_precise(x, is_negative) ==
  exp_to_fixed(libm_exp(LowLimb(U256Div(x, SCALE_U256)),
                        U256Rem(x, SCALE_U256), is_negative))

(***************************************************************************)
(* The loop of exp_taylor.  Besides result and term it yields what the     *)
(* loop went through: break, whether it was left early; terms, the number  *)
(* of terms added; overflow, whether a product or a sum left the 256-bit   *)
(* range; low, whether the running sum was below SCALE after an iteration. *)
(***************************************************************************)
\* the locals after an iteration that makes the term `term`
taylor_add(was, product, term) ==
  [result |-> U256Add(was.result, term),
   term |-> term,
   break |-> Lt(term, FromNat(1000)),
   terms |-> was.terms + 1,
   overflow |-> was.overflow \/ ~Fits(product) \/ ~Fits(Add(was.result, term)),
   low |-> was.low \/ Lt(U256Add(was.result, term), SCALE)]

\* iteration i of the loop, from the locals `was` of the iteration before
taylor_body(x_capped, i, was) ==
  taylor_add(was, Mul(was.term, x_capped),
             U256Div(mul_fixed(was.term, x_capped), FromNat(i)))

\* the iterations lo..hi of the loop unless it was left, from the locals
\* `was`; the range is taken by halves
RECURSIVE taylor_range(_, _, _, _)
taylor_range(x_capped, lo, hi, was) ==
  IF was.break \/ lo > hi THEN was
  ELSE IF lo = hi THEN taylor_body(x_capped, lo, was)
  ELSE taylor_range(x_capped, ((lo + hi) \div 2) + 1, hi,
                    taylor_range(x_capped, lo, (lo + hi) \div 2, was))

taylor_loop(x_capped, result) ==
  taylor_range(x_capped, 1, MAX_ITERATIONS,
               [result |-> result, term |-> SCALE_U256, break |-> FALSE,
                terms |-> 0, overflow |-> FALSE, low |-> FALSE])

exp_taylor_uncapped(x) == taylor_loop(x, SCALE_U256)

exp_taylor_zero_seed(x) ==
  taylor_loop(IF Lt(from_decimal(5), x) THEN from_decimal(5) ELSE x, Zero)

\* exp_taylor up to the end of its loop
exp_taylor_sum(x) ==
  taylor_loop(IF Lt(from_decimal(5), x) THEN from_decimal(5) ELSE x,
              SCALE_U256)

\* exp_taylor after its loop
exp_taylor_end(result, is_negative) ==
  IF is_negative THEN div_fixed(SCALE_U256, result) ELSE result

exp_taylor(x, is_negative) ==
  exp_taylor_end(exp_taylor_sum(x).result, is_negative)

sigmoid_ratio_one_branch(exp_neg_x, is_negative) ==
  div_fixed(SCALE_U256, U256Add(SCALE_U256, exp_neg_x))

\* the two branches of sigmoid_precise, for exp_neg_x = e^(-|x|)
sigmoid_ratio(exp_neg_x, is_negative) ==
  IF is_negative
  THEN div_fixed(exp_neg_x, U256Add(SCALE_U256, exp_neg_x))
  ELSE div_fixed(SCALE_U256, U256Add(SCALE_U256, exp_neg_x))

sigmoid_precise(x, is_negative) ==
  sigmoid_ratio(exp_precise(x, TRUE), is_negative)

sigmoid_fixed(x, is_negative) == sigmoid_precise(x, is_negative)

\* |supply - b|
supply_diff(supply, b) ==
  IF Lt(supply, b) THEN U256Sub(b, supply) ELSE U256Sub(supply, b)

\* a panic of the sigmoid unwinds the call
price_from(a, sigmoid) ==
  IF sigmoid = DivisionByZero THEN DivisionByZero ELSE mul_fixed(a, sigmoid)

calculate_sigmoid_price(supply, a, k, b) ==
  price_from(a, sigmoid_fixed(mul_fixed(k, supply_diff(supply, b)),
                              Lt(supply, b)))

steps == 100

step_size_unguarded(from_supply, to_supply) ==
  U256Div(U256Sub(to_supply, from_supply), FromNat(steps))

\* the step_size of sigmoid_integral
step_size_of(from_supply, to_supply) ==
  IF Lt(from_supply, to_supply)
  THEN U256Div(U256Sub(to_supply, from_supply), FromNat(steps))
  ELSE Zero

----------------------------------------------------------------------------
(* Inputs: the magnitudes within MaxDelta raw units of the values where    *)
(* the behaviour of the code changes, and a grid of exponents.             *)

MaxDelta == 1

MaxEighths == 44

Near(p) ==
  {a \in {Add(p, FromNat(d)) : d \in 0..MaxDelta} : Fits(a)}
    \cup {Sub(p, FromNat(d)) : d \in {e \in 0..MaxDelta : Le(FromNat(e), p)}}

Units(n) == MulNat(SCALE, n)

\* 0, 1.0, 3.0, the largest a with a * SCALE < 2^256, 2^128, 2^256 - 1
FixedInputs ==
  UNION {Near(p) : p \in {Zero, SCALE, Units(3), Quot(U256Max, SCALE),
                          TwoPow(128), U256Max}}

\* 0, 1/8, 2/8, ... and the neighbours of 0, of the early-exit threshold,
\* of the cap 5.0 and of 2^256 - 1
ExpInputs ==
  {MulNat(Quot(SCALE, <<8>>), q) : q \in 0..MaxEighths}
    \cup UNION {Near(p) : p \in {Zero, FromNat(1000), Units(5), U256Max}}

\* the neighbours of 0, 1.0, 41.0, 42.0, 2^64 and 2^256 - 1
SigmoidInputs ==
  UNION {Near(p) : p \in {Zero, SCALE, Units(41), Units(42),
                          Mul(TwoPow(64), SCALE), U256Max}}

CurveB == {Zero, Units(100)}

CurveSupply ==
  {Zero, Units(58), Units(100), Units(101), Units(142),
   Add(Units(100), Mul(TwoPow(64), SCALE))}

CurveK == {Zero, SCALE, TwoPow(200)}

\* 3 raw units, 1000.0, 2^256 - 1 and the neighbours of the largest a with
\* a * (SCALE / 2) < 2^256
CurveA ==
  {<<3>>, Units(1000), U256Max}
    \cup Near(Quot(U256Max, Quot(SCALE, <<2>>)))

RangeTo == Near(Units(100)) \cup {Units(200)}

----------------------------------------------------------------------------
\* ret while no call has returned
None == <<-2>>

Init ==
  /\ op = "idle" /\ args = <<>> /\ ret = None /\ aux = <<>>
  /\ libm \in {"lo", "hi"}

Return ==
  /\ op # "idle" /\ ret # None
  /\ op' = "idle" /\ args' = <<>> /\ ret' = None /\ aux' = <<>>
  /\ UNCHANGED libm

MulFixed(a, b) ==
  /\ op = "idle"
  /\ op' = "mul_fixed" /\ args' = <<a, b>>
  /\ ret' = mul_fixed(a, b)
  /\ UNCHANGED <<aux, libm>>

DivFixed(a, b) ==
  /\ op = "idle"
  /\ op' = "div_fixed" /\ args' = <<a, b>>
  /\ ret' = div_fixed(a, b)
  /\ UNCHANGED <<aux, libm>>

\* a caller that feeds the quotient of div_fixed(a, b) back to mul_fixed(_, b)
MulBack ==
  /\ op = "div_fixed" /\ ret # DivisionByZero
  /\ op' = "div_fixed,mul_fixed" /\ args' = args
  /\ ret' = mul_fixed(ret, args[2])
  /\ UNCHANGED <<aux, libm>>

ExpTaylor(x, is_negative) ==
  /\ op = "idle"
  /\ op' = "exp_taylor" /\ args' = <<x, is_negative>>
  /\ LET sum == exp_taylor_sum(x)
     IN  /\ aux' = sum
         /\ ret' = exp_taylor_end(sum.result, is_negative)
  /\ UNCHANGED libm

Sigmoid(x, is_negative) ==
  /\ op = "idle"
  /\ op' = "sigmoid" /\ args' = <<x, is_negative>>
  /\ ret' = sigmoid_fixed(x, is_negative)
  /\ UNCHANGED <<aux, libm>>

CalculatePrice(supply, a, k, b) ==
  /\ op = "idle"
  /\ op' = "calculate_price" /\ args' = <<supply, a, k, b>>
  /\ ret' = calculate_sigmoid_price(supply, a, k, b)
  /\ UNCHANGED <<aux, libm>>

\* a caller that asks the price again at a larger supply; aux keeps the
\* first call's supply and price
PriceAgain(supply2) ==
  /\ op = "calculate_price" /\ Lt(args[1], supply2)
  /\ op' = "calculate_price,calculate_price"
  /\ args' = <<supply2, args[2], args[3], args[4]>>
  /\ aux' = [supply |-> args[1], price |-> ret]
  /\ ret' = calculate_sigmoid_price(supply2, args[2], args[3], args[4])
  /\ UNCHANGED libm

\* sigmoid_integral runs its loop one iteration per step; aux holds its
\* locals and i, the number of iterations done
CalculateIntegral(from_supply, to_supply, a, k, b) ==
  /\ op = "idle"
  /\ op' = "calculate_integral"
  /\ args' = <<from_supply, to_supply, a, k, b>>
  /\ aux' = [i |-> 0,
             step_size |-> step_size_of(from_supply, to_supply),
             integral |-> Zero,
             current_supply |-> from_supply]
  /\ ret' = None
  /\ UNCHANGED libm

\* the rest of an iteration, once the price at current_supply is known
IntegralAdd(price) ==
  IF price = DivisionByZero
  THEN ret' = DivisionByZero /\ aux' = aux
  ELSE /\ aux' = [i |-> aux.i + 1,
                  step_size |-> aux.step_size,
                  integral |->
                    U256Add(aux.integral, mul_fixed(price, aux.step_size)),
                  current_supply |->
                    U256Add(aux.current_supply, aux.step_size)]
       /\ ret' = None

IntegralStep ==
  /\ op = "calculate_integral" /\ ret = None /\ aux.i < steps
  /\ IntegralAdd(calculate_sigmoid_price(aux.current_supply,
                                         args[3], args[4], args[5]))
  /\ UNCHANGED <<op, args, libm>>

IntegralEnd ==
  /\ op = "calculate_integral" /\ ret = None /\ aux.i = steps
  /\ ret' = aux.integral
  /\ UNCHANGED <<op, args, aux, libm>>

NextFixed ==
  \/ \E a \in FixedInputs, b \in FixedInputs : MulFixed(a, b)
  \/ \E a \in FixedInputs, b \in FixedInputs : DivFixed(a, b)
  \/ MulBack
  \/ Return

NextExp ==
  \/ \E x \in ExpInputs, is_negative \in BOOLEAN : ExpTaylor(x, is_negative)
  \/ Return

NextCurve ==
  \/ \E x \in SigmoidInputs, is_negative \in BOOLEAN : Sigmoid(x, is_negative)
  \/ \E supply \in CurveSupply, a \in CurveA, k \in CurveK, b \in CurveB :
       CalculatePrice(supply, a, k, b)
  \/ \E supply2 \in CurveSupply : PriceAgain(supply2)
  \/ Return

NextIntegral ==
  \/ \E to_supply \in RangeTo, a \in {Units(1000), U256Max} :
       CalculateIntegral(Units(100), to_supply, a, SCALE, Units(100))
  \/ IntegralStep
  \/ IntegralEnd
  \/ Return

Next == NextFixed \/ NextExp \/ NextCurve \/ NextIntegral

Spec == Init /\ [][Next]_vars

SpecFixed == Init /\ [][NextFixed]_vars

SpecExp == Init /\ [][NextExp]_vars

SpecCurve == Init /\ [][NextCurve]_vars

SpecIntegral == Init /\ [][NextIntegral]_vars

----------------------------------------------------------------------------
(* Properties.                                                             *)

\* C1: mul_fixed(a, b) fails whenever the product a * b leaves the 256-bit
\* range, and div_fixed(a, b) with b # 0 fails whenever a * SCALE leaves it;
\* no value is returned in either case.
C1_OverflowFails ==
  /\ (op = "mul_fixed" /\ ~Fits(Mul(args[1], args[2]))) => Panicked(ret)
  /\ (op = "div_fixed" /\ args[2] # Zero /\ ~Fits(Mul(args[1], SCALE)))
       => Panicked(ret)

\* C2: for every magnitude x, mul_fixed(x, SCALE) = x and
\* div_fixed(x, SCALE) = x.
C2_ScaleIsIdentity ==
  (op \in {"mul_fixed", "div_fixed"} /\ args[2] = SCALE) => ret = args[1]

\* C3, as stated: for b # 0, mul_fixed(div_fixed(a, b), b) is a or a - 1.
C3_RoundTripWithinOne ==
  op = "div_fixed,mul_fixed"
    => Le(ret, args[1]) /\ Le(args[1], Add(ret, <<1>>))

\* C3, amended: for b # 0 and a * SCALE within the 256-bit range,
\* mul_fixed(div_fixed(a, b), b) is at most a and at least a - ceil(b / SCALE).
C3_RoundTripWithinDivisor ==
  (op = "div_fixed,mul_fixed" /\ Fits(Mul(args[1], SCALE)))
    => /\ Le(ret, args[1])
       /\ Le(args[1],
             Add(ret, Quot(Add(args[2], Sub(SCALE, <<1>>)), SCALE)))

\* C3: a round trip within the 256-bit range that loses more than 1 raw unit
C3_RoundTripLosesMore ==
  /\ op = "div_fixed,mul_fixed"
  /\ Fits(Mul(args[1], SCALE))
  /\ Lt(Add(ret, <<1>>), args[1])

\* exp_precise(_, true) does not increase from the smaller to the larger of
\* the magnitudes x1 and x2
ExpOrdered(x1, x2) ==
  /\ Le(x1, x2) => Le(exp_precise(x2, TRUE), exp_precise(x1, TRUE))
  /\ Le(x2, x1) => Le(exp_precise(x1, TRUE), exp_precise(x2, TRUE))

\* C4: for k > 0 and supply1 < supply2, where the exponential does not
\* increase in the magnitude it is given, the price at supply1 is at most the
\* price at supply2.
C4_PriceMonotonic ==
  (/\ op = "calculate_price,calculate_price"
   /\ args[3] # Zero
   /\ ExpOrdered(mul_fixed(args[3], supply_diff(aux.supply, args[4])),
                 mul_fixed(args[3], supply_diff(args[1], args[4]))))
    => Le(aux.price, ret)

\* C5: for any a, k, b the price at supply = b is floor(a / 2).
C5_HalfAtInflection ==
  (op = "calculate_price" /\ args[1] = args[4])
    => ret = Quot(args[2], <<2>>)

\* C6: for to_supply <= from_supply, sigmoid_integral has step_size 0, keeps
\* its integral at 0 in every iteration, never panics and returns 0.
C6_DegenerateRangeIsZero ==
  (op = "calculate_integral" /\ Le(args[2], args[1]))
    => /\ aux.step_size = Zero
       /\ aux.integral = Zero
       /\ ret \in {None, Zero}

\* C6: the integral over a range with to_supply < from_supply has returned 0
\* after all of its iterations
C6_DegenerateRangeReturned ==
  /\ op = "calculate_integral"
  /\ Lt(args[2], args[1])
  /\ aux.i = steps
  /\ ret = Zero

\* C7: div_fixed(a, b) panics with "Division by zero" exactly when b = 0.
C7_DivisionByZeroIffZero ==
  op = "div_fixed" => (Panicked(ret) <=> args[2] = Zero)

\* C7: div_fixed(2^256 - 1, 0) has panicked
C7_DividedMaxByZero ==
  /\ op = "div_fixed"
  /\ args = <<U256Max, Zero>>
  /\ Panicked(ret)

\* C8: in exp_taylor no product leaves the 256-bit range and the running sum
\* is at least SCALE after every iteration; exp_taylor(x, true) does not
\* divide by zero and returns r with 0 < r <= SCALE, and exp_taylor(x, false)
\* returns at least SCALE.
C8_SeriesNeverFails ==
  op = "exp_taylor"
    => /\ ~aux.overflow
       /\ ~aux.low
       /\ ~Panicked(ret)
       /\ args[2] => (Lt(Zero, ret) /\ Le(ret, SCALE))
       /\ ~args[2] => Le(SCALE, ret)

\* C8: exp_taylor(2^256 - 1, true) has run all iterations and returned a
\* value in 1..SCALE
C8_SeriesOfMaxNegative ==
  /\ op = "exp_taylor"
  /\ args = <<U256Max, TRUE>>
  /\ aux.terms = MAX_ITERATIONS
  /\ Lt(Zero, ret)
  /\ Lt(ret, SCALE)

\* C9: for x > 5 * SCALE, exp_taylor(x, is_negative) is
\* exp_taylor(5 * SCALE, is_negative); the loop adds at most 8 terms.
C9_InputCappedAtFive ==
  op = "exp_taylor"
    => /\ aux.terms <= 8
       /\ Lt(Units(5), args[1]) => ret = exp_taylor(Units(5), args[2])

\* C9: exp_taylor(2^256 - 1, false) has returned the sum of 8 terms that
\* exp_taylor(5 * SCALE, false) returns
C9_MaxCappedToFive ==
  /\ op = "exp_taylor"
  /\ args = <<U256Max, FALSE>>
  /\ aux.terms = 8
  /\ ret = exp_taylor(Units(5), FALSE)
  /\ Lt(Units(100), ret)

\* sigmoid(x, true) = lo and sigmoid(x, false) = hi are complementary
Complementary(lo, hi) ==
  /\ Add(lo, hi) \in {SCALE, Sub(SCALE, <<1>>)}
  /\ Le(lo, hi)
  /\ Le(hi, SCALE)

\* C10: with exp_precise(x, true) in 1..SCALE, sigmoid_fixed(x, true) and
\* sigmoid_fixed(x, false) add up to SCALE or SCALE - 1, both are at most
\* SCALE, and the first is at most the second.
C10_SignBranchesComplementary ==
  (/\ op = "sigmoid"
   /\ Le(<<1>>, exp_precise(args[1], TRUE))
   /\ Le(exp_precise(args[1], TRUE), SCALE))
    => IF args[2]
       THEN Complementary(ret, sigmoid_fixed(args[1], FALSE))
       ELSE Complementary(sigmoid_fixed(args[1], TRUE), ret)

\* C10: sigmoid_fixed(1.0, true) has returned a value above 0 and below
\* sigmoid_fixed(1.0, false)
C10_SigmoidOfMinusOne ==
  /\ op = "sigmoid"
  /\ args = <<SCALE, TRUE>>
  /\ Lt(Zero, ret)
  /\ Lt(ret, sigmoid_fixed(SCALE, FALSE))
====
